---- MODULE Spec2Model ----
(***************************************************************************)
(* A model of core/datasets/load_llff.py: the LLFF loader load_llff_data,  *)
(* its file-system helper _load_data/_minify and the render-path           *)
(* generators render_path_spiral and spherify_poses.                       *)
(*                                                                         *)
(* Numbers are exact rationals <<n, d>> (d > 0, lowest terms); float32/    *)
(* float64 rounding is not modelled.  Angles are measured in turns (one    *)
(* turn = 2*pi), and a sine or cosine is represented by the angle in       *)
(* [-1/4, 1/4] with that sine ("SinKey"), which is equal for two angles    *)
(* exactly when their sines are equal.                                     *)
(***************************************************************************)
EXTENDS Integers, Sequences, FiniteSets, TLC

\* render_path_spiral called on its own: the arguments, the list returned
VARIABLES sp_args, sp_out, sp_pc

spiralVars == <<sp_args, sp_out, sp_pc>>

\* load_llff_data from line 31 on: the arguments, what _load_data returned
\* (loaded), the heap of arrays and the local variables
VARIABLES loaded, rad, bd_factor, recenter, spherify, llffhold, split, no_ndc,
          path_zflat, heap, poses, bds, imgs, c2w, c2w_path, rads, N_rots,
          N_views, render_poses, H, W, K, near, far, i_test, i_val, i_train,
          ret, outcome, pc

argVars == <<loaded, rad, bd_factor, recenter, spherify, llffhold, split,
             no_ndc, path_zflat>>
\* argVars without the argument named
notBdFactor == <<loaded, rad, recenter, spherify, llffhold, split, no_ndc, path_zflat>>
notRecenter == <<loaded, rad, bd_factor, spherify, llffhold, split, no_ndc, path_zflat>>
notSpherify == <<loaded, bd_factor, recenter, llffhold, split, no_ndc, path_zflat>>
notZFlat == <<loaded, rad, bd_factor, recenter, spherify, llffhold, split, no_ndc>>
notNoNdc == <<loaded, rad, bd_factor, recenter, spherify, llffhold, split, path_zflat>>
notHold == <<loaded, rad, bd_factor, recenter, spherify, split, no_ndc, path_zflat>>
notSplit == <<loaded, rad, bd_factor, recenter, spherify, llffhold, no_ndc, path_zflat>>
refVars == <<poses, bds, imgs>>
pathVars == <<c2w, c2w_path, rads, N_rots, N_views, render_poses>>
intrVars == <<H, W, K, near, far>>
idxVars == <<i_test, i_val, i_train>>
pipeVars == <<argVars, heap, refVars, pathVars, intrVars, idxVars, ret,
              outcome, pc>>

\* _load_data / _minify: the file system (fs, nrows = rows of poses_bounds.npy),
\* the working directory, the running call and its local variables; fs_entry,
\* cwd_entry and minified record the file system when _minify was entered, the
\* working directory when the call began and the directories a _minify call
\* returned normally for
VARIABLES fs, nrows, cwd, call, lpc, sh, target, imgdir, needtoload, wd, ext,
          result, fs_entry, cwd_entry, minified

loadVars == <<fs, nrows, cwd, call, lpc, sh, target, imgdir, needtoload, wd,
              ext, result, fs_entry, cwd_entry, minified>>

vars == <<spiralVars, pipeVars, loadVars>>

----------------------------------------------------------------------------
(* Exact rational arithmetic.                                              *)

RECURSIVE GCD(_, _)
GCD(a, b) == IF b = 0 THEN a ELSE GCD(b, a % b)

Abs(x) == IF x < 0 THEN -x ELSE x

Rat(n, d) ==
    LET s == IF d < 0 THEN -1 ELSE 1
        g == GCD(Abs(n), Abs(d))
    IN  <<(s * n) \div g, (s * d) \div g>>

RInt(n) == <<n, 1>>
RAdd(a, b) == Rat(a[1] * b[2] + b[1] * a[2], a[2] * b[2])
RSub(a, b) == Rat(a[1] * b[2] - b[1] * a[2], a[2] * b[2])
RMul(a, b) == Rat(a[1] * b[1], a[2] * b[2])
RDiv(a, b) == Rat(a[1] * b[2], a[2] * b[1])
RNeg(a) == <<-a[1], a[2]>>
RLeq(a, b) == a[1] * b[2] <= b[1] * a[2]
RLt(a, b) == a[1] * b[2] < b[1] * a[2]

\* x.min() / x.max() of a non-empty set of rationals
RMinOf(S) == CHOOSE m \in S : \A x \in S : RLeq(m, x)
RMaxOf(S) == CHOOSE m \in S : \A x \in S : RLeq(x, m)

\* int(x): truncation toward zero of a rational
RTrunc(a) == IF a[1] >= 0 THEN a[1] \div a[2] ELSE -((-a[1]) \div a[2])

----------------------------------------------------------------------------
(* Trigonometry on angles given in turns.                                  *)

\* the fractional part of an angle, in [0, 1)
Frac(t) == Rat(t[1] % t[2], t[2])

\* np.sin: the angle in [-1/4, 1/4] that has the same sine as t
SinKey(t) ==
    LET f == Frac(t)
    IN  IF RLeq(f, <<1, 4>>) THEN f
        ELSE IF RLeq(f, <<3, 4>>) THEN RSub(<<1, 2>>, f)
        ELSE RSub(f, <<1, 1>>)

\* np.cos(t) = np.sin(t + 1/4 turn)
CosKey(t) == SinKey(RAdd(t, <<1, 4>>))

\* np.linspace(start, stop, num) with the default endpoint=True
np_linspace(start, stop, num) ==
    [i \in 1..num |->
        IF num = 1 THEN start
        ELSE RAdd(start, RMul(RSub(stop, start), Rat(i - 1, num - 1)))]

\* seq[:-1]
DropLast(s) == IF Len(s) = 0 THEN s ELSE SubSeq(s, 1, Len(s) - 1)

\* key * r for a radius r known only as zero (0) or non-zero (1)
TimesRad(key, r) == IF r = 0 THEN <<0, 1>> ELSE key

----------------------------------------------------------------------------
(* render_path_spiral.  c2w is the path centre (its hwf column is copied   *)
(* into every pose); rads[k] says whether the k-th radius is zero or not.  *)
(* A path point is kept up to the invertible affine map c2w[:3,:4], i.e.   *)
(* as the vector (cos th, -sin th, -sin(th*zrate)) * rads it is applied to.*)

N_VIEWS == 120
N_ROTS == 2
RING_VIEWS == 120

render_path_spiral_keep_last(m, radii, zrate, rots, N) ==
    LET thetas == np_linspace(<<0, 1>>, RInt(rots), N + 1)
    IN  [j \in 1..Len(thetas) |->
            [kind  |-> "render",
             theta |-> thetas[j],
             c     |-> <<TimesRad(CosKey(thetas[j]), radii[1]),
                         TimesRad(RNeg(SinKey(thetas[j])), radii[2]),
                         TimesRad(RNeg(SinKey(RMul(thetas[j], zrate))), radii[3])>>,
             hwf   |-> m.hwf]]

render_path_spiral(m, radii, zrate, rots, N) ==
    LET thetas == DropLast(np_linspace(<<0, 1>>, RInt(rots), N + 1))
    IN  [j \in 1..Len(thetas) |->
            [kind  |-> "render",
             theta |-> thetas[j],
             c     |-> <<TimesRad(CosKey(thetas[j]), radii[1]),
                         TimesRad(RNeg(SinKey(thetas[j])), radii[2]),
                         TimesRad(RNeg(SinKey(RMul(thetas[j], zrate))), radii[3])>>,
             hwf   |-> m.hwf]]

SpiralInputs ==
    [c2w : {[hwf |-> <<4, 6, <<5, 1>>>>]},
     rads : [1..3 -> {0, 1}],
     zrate : {<<1, 2>>},
     rots : 1..N_ROTS,
     N : 1..N_VIEWS]

SpiralInit ==
    /\ sp_args \in SpiralInputs
    /\ sp_out = <<>>
    /\ sp_pc = "call"

SpiralCall ==
    /\ sp_pc = "call"
    /\ sp_out' = render_path_spiral(sp_args.c2w, sp_args.rads, sp_args.zrate,
                                    sp_args.rots, sp_args.N)
    /\ sp_pc' = "done"
    /\ UNCHANGED <<sp_args, pipeVars, loadVars>>

----------------------------------------------------------------------------
(* load_llff_data after _load_data has returned: lines 31-106.             *)
(*                                                                         *)
(* Arrays live in a heap indexed by the place that allocates them, and the *)
(* program variables poses, bds, imgs, c2w, c2w_path, render_poses hold    *)
(* references, so that an in-place update through one name is seen through*)
(* every alias.  A pose array is [cams, sc, frame]: camera k sits at       *)
(* sc * F(cams[k].t), F being the rigid motion named by frame (the         *)
(* rotations themselves are not represented).                              *)
(*                                                                         *)
(* A keyword argument is never assigned and is read at one place, so it is *)
(* drawn by the step that reads it and keeps that value to the end.        *)

MaxN == 17
MaxHold == 8
NumScenes == 2

\* bd_factor=None, a variable not yet assigned, a heap cell not yet allocated
None == <<>>
Null == "null"
Free == [kind |-> "free"]

Sites == {"poses32", "imgs33", "bds34", "poses271", "poses339", "c2w51",
          "rads62", "render76", "c2w87", "imgs99", "poses100", "bds101"}

\* the arrays the pose transforms receive or hand on: poses, bounds, frames
PoseSites == Sites \ {"rads62", "imgs33", "imgs99"}

\* row k of scene s as _load_data returns it: the translation column, the
\* (H, W, focal) column and the (near, far) pair
Row(s, k) ==
    [t |-> <<k * s, (k * k) % 3, s - 1>>,
     hwf |-> <<4, 5, RInt(6 + 2 * ((k + s) % 2))>>,
     bd |-> <<RInt(1 + ((k + s) % 3)), RInt(6 + (k % 2))>>]

Splits == {"train", "val", "test", "fake"}
Holds == 0..MaxHold
BdFactors == {None, <<3, 4>>}
Rads == {<<1, 1>>, <<2, 1>>}

\* python numbers: N_views is the int 120 until "N_views /= 2" makes it a float
PyInt(n) == [py |-> "int", v |-> RInt(n)]
PyTrueDiv(x, n) == [py |-> "float", v |-> RDiv(x.v, RInt(n))]

\* lines 31-34: the arrays load_llff_data builds from what _load_data returned
PoseArray(rows) ==
    [kind |-> "poses",
     cams |-> [k \in 1..Len(rows) |->
                  [kind |-> "real", id |-> k - 1, t |-> rows[k].t,
                   hwf |-> rows[k].hwf]],
     sc |-> <<1, 1>>,
     frame |-> <<>>]

BdsArray(rows) == [kind |-> "bds", v |-> [k \in 1..Len(rows) |-> rows[k].bd]]
ImgArray(rows) == [kind |-> "imgs", v |-> [k \in 1..Len(rows) |-> k - 1]]

BdsValues(b) == {b.v[k][1] : k \in 1..Len(b.v)} \cup {b.v[k][2] : k \in 1..Len(b.v)}
BdsMin(b) == RMinOf(BdsValues(b))
BdsMax(b) == RMaxOf(BdsValues(b))
BdsTimes(b, s) ==
    [b EXCEPT !.v = [k \in 1..Len(b.v) |-> <<RMul(b.v[k][1], s), RMul(b.v[k][2], s)>>]]

PipeInit ==
    /\ \E n \in 1..MaxN, s \in 1..NumScenes : loaded = [k \in 1..n |-> Row(s, k)]
    /\ bd_factor = Null /\ recenter = Null /\ spherify = Null /\ rad = Null
    /\ llffhold = Null /\ split = Null /\ no_ndc = Null /\ path_zflat = Null
    /\ heap = [s \in Sites |->
                 CASE s = "poses32" -> PoseArray(loaded)
                   [] s = "imgs33" -> ImgArray(loaded)
                   [] s = "bds34" -> BdsArray(loaded)
                   [] OTHER -> Free]
    /\ poses = "poses32"
    /\ imgs = "imgs33"
    /\ bds = "bds34"
    /\ c2w = Null /\ c2w_path = Null /\ rads = Null
    /\ N_rots = Null /\ N_views = Null /\ render_poses = Null
    /\ H = Null /\ W = Null /\ K = Null /\ near = Null /\ far = Null
    /\ i_test = Null /\ i_val = Null /\ i_train = Null
    /\ ret = Null
    /\ outcome = "running"
    /\ pc = "scale"

\* line 37
ScaleFactor(bdf, b) ==
    IF bdf = None THEN <<1, 1>> ELSE RDiv(<<1, 1>>, RMul(BdsMin(b), bdf))

\* lines 37-39: both arrays are scaled in place
Scale ==
    /\ pc = "scale"
    /\ bd_factor' \in BdFactors
    /\ LET sc == ScaleFactor(bd_factor', heap[bds])
       IN  heap' = [heap EXCEPT ![poses].sc = RMul(@, sc),
                                ![bds] = BdsTimes(@, sc)]
    /\ pc' = "recenter"
    /\ UNCHANGED <<spiralVars, loadVars,
                   notBdFactor, refVars, pathVars, intrVars, idxVars, ret, outcome>>

\* the sum of the translation columns, componentwise
RECURSIVE SumT(_, _)
SumT(cams, k) ==
    IF k = 0 THEN <<0, 0, 0>>
    ELSE LET r == SumT(cams, k - 1)
         IN  <<r[1] + cams[k].t[1], r[2] + cams[k].t[2], r[3] + cams[k].t[3]>>

\* poses_avg: a new 3x5 matrix; center = sc * F(tsum / n), shifted by zshift
\* along its own z axis, with the hwf column of the first pose
poses_avg(p) ==
    [kind |-> "c2w", tsum |-> SumT(p.cams, Len(p.cams)), n |-> Len(p.cams), sc |-> p.sc,
     frame |-> p.frame, zshift |-> <<0, 1>>, hwf |-> p.cams[1].hwf]

\* recenter_poses: works on the copy poses_ = poses+0 and returns it
recenter_poses(p) == [p EXCEPT !.frame = Append(@, "recenter")]

\* lines 42-43
Recenter ==
    /\ pc = "recenter"
    /\ recenter' \in BOOLEAN
    /\ IF recenter'
       THEN /\ heap' = [heap EXCEPT !["poses271"] = recenter_poses(heap[poses])]
            /\ poses' = "poses271"
       ELSE UNCHANGED <<heap, poses>>
    /\ pc' = "path"
    /\ UNCHANGED <<spiralVars, loadVars,
                   notRecenter, bds, imgs, pathVars, intrVars, idxVars, ret, outcome>>

\* lines 318-336: the ring of new_poses, one per angle of
\* np.linspace(0, 2*pi, 120); camorigin = (radcircle*cos th, radcircle*sin th, zh)
\* is kept as (cos th, sin th) (radcircle > 0 and zh are the same for all)
RingPoses(hwf) ==
    LET ths == np_linspace(<<0, 1>>, <<1, 1>>, RING_VIEWS)
    IN  [j \in 1..Len(ths) |->
            [kind |-> "render", theta |-> ths[j],
             c |-> <<CosKey(ths[j]), SinKey(ths[j])>>, hwf |-> hwf]]

\* spherify_poses lines 285-341.  rad (line 311) is the RMS camera distance
\* from the point nearest to all viewing rays; it is an input of the model.
\* poses_reset and new_poses are new arrays with the hwf column of pose 0;
\* bds is rescaled in place (line 315) and that same array is returned.
spherify_poses_reset(p, rd) ==
    [kind |-> "poses",
     cams |-> [k \in 1..Len(p.cams) |-> [p.cams[k] EXCEPT !.hwf = p.cams[1].hwf]],
     sc |-> RMul(p.sc, RDiv(<<1, 1>>, rd)),
     frame |-> Append(p.frame, "spherify")]

RenderArray(list) ==
    [kind |-> "poses", cams |-> list, sc |-> <<1, 1>>, frame |-> <<"path">>]

\* lines 46-47, 76
Spherify ==
    /\ pc = "path"
    /\ spherify' = TRUE
    /\ rad' \in Rads
    /\ heap' = [heap EXCEPT
                  !["poses339"] = spherify_poses_reset(heap[poses], rad'),
                  ![bds] = BdsTimes(@, RDiv(<<1, 1>>, rad')),
                  !["render76"] = RenderArray(RingPoses(heap[poses].cams[1].hwf))]
    /\ poses' = "poses339"
    /\ render_poses' = "render76"
    /\ pc' = "intrinsics"
    /\ UNCHANGED <<spiralVars, loadVars,
                   notSpherify, bds, imgs, c2w, c2w_path, rads, N_rots, N_views,
                   intrVars, idxVars, ret, outcome>>

\* lines 51-65: c2w = poses_avg(poses); rads = np.percentile(...) is a new array
\* (all three radii taken non-zero); c2w_path = c2w is a second name for c2w
AvgFrame ==
    /\ pc = "path"
    /\ spherify' = FALSE
    /\ heap' = [heap EXCEPT !["c2w51"] = poses_avg(heap[poses]),
                            !["rads62"] = [kind |-> "rads", v |-> <<1, 1, 1>>]]
    /\ c2w' = "c2w51"
    /\ c2w_path' = "c2w51"
    /\ rads' = "rads62"
    /\ N_views' = PyInt(N_VIEWS)
    /\ N_rots' = N_ROTS
    /\ pc' = "zflat"
    /\ UNCHANGED <<spiralVars, loadVars,
                   notSpherify, rad, refVars, render_poses, intrVars, idxVars, ret, outcome>>

\* line 54
close_depth(b) == RMul(BdsMin(b), <<9, 10>>)

\* lines 66-72
ZFlat ==
    /\ pc = "zflat"
    /\ path_zflat' \in BOOLEAN
    /\ IF path_zflat'
       THEN LET zloc == RMul(RNeg(close_depth(heap[bds])), <<1, 10>>)
            IN  /\ heap' = [heap EXCEPT ![c2w_path].zshift = RAdd(@, zloc),
                                        ![rads].v[3] = 0]
                /\ N_rots' = 1
                /\ N_views' = PyTrueDiv(N_views, 2)
       ELSE UNCHANGED <<heap, N_rots, N_views>>
    /\ pc' = "spiral"
    /\ UNCHANGED <<spiralVars, loadVars,
                   notZFlat, refVars, c2w, c2w_path, rads, render_poses,
                   intrVars, idxVars, ret, outcome>>

\* lines 74-76 when np.linspace accepts num = N+1: an int, or a float on
\* numpy < 1.18, which truncates it with a DeprecationWarning
RenderSpiral ==
    /\ pc = "spiral"
    /\ heap' = [heap EXCEPT !["render76"] =
                  RenderArray(render_path_spiral(heap[c2w_path], heap[rads].v,
                                                 <<1, 2>>, N_rots, RTrunc(N_views.v)))]
    /\ render_poses' = "render76"
    /\ pc' = "intrinsics"
    /\ UNCHANGED <<spiralVars, loadVars,
                   argVars, refVars, c2w, c2w_path, rads, N_rots, N_views,
                   intrVars, idxVars, ret, outcome>>

\* line 74 on numpy >= 1.18: np.linspace(0., 2*pi*rots, 61.0) raises TypeError
RenderSpiralTypeError ==
    /\ pc = "spiral"
    /\ N_views.py = "float"
    /\ outcome' = "TypeError"
    /\ pc' = "done"
    /\ UNCHANGED <<spiralVars, loadVars,
                   argVars, heap, refVars, pathVars, intrVars, idxVars, ret>>

\* lines 83-84
NearFarNoMargin(b, ndc_off) ==
    IF ndc_off THEN <<BdsMin(b), BdsMax(b)>> ELSE <<<<0, 1>>, <<1, 1>>>>

NearFar(b, ndc_off) ==
    IF ndc_off THEN <<RMul(BdsMin(b), <<9, 10>>), RMul(BdsMax(b), <<1, 1>>)>>
    ELSE <<<<0, 1>>, <<1, 1>>>>

\* line 80
Intrinsic(h, w, focal) ==
    <<<<focal, <<0, 1>>, RMul(<<1, 2>>, RInt(w))>>,
      <<<<0, 1>>, focal, RMul(<<1, 2>>, RInt(h))>>,
      <<<<0, 1>>, <<0, 1>>, <<1, 1>>>>>>

\* lines 79-85
Intrinsics ==
    /\ pc = "intrinsics"
    /\ LET hwf == heap[poses].cams[1].hwf
       IN  /\ H' = hwf[1]
           /\ W' = hwf[2]
           /\ K' = Intrinsic(hwf[1], hwf[2], hwf[3])
    /\ no_ndc' \in BOOLEAN
    /\ near' = NearFar(heap[bds], no_ndc')[1]
    /\ far' = NearFar(heap[bds], no_ndc')[2]
    /\ pc' = "split"
    /\ UNCHANGED <<spiralVars, loadVars,
                   notNoNdc, heap, refVars, pathVars, idxVars, ret, outcome>>

\* line 90, in units of (sc / n)^2: |n * t_k - tsum|^2 is n^2 / sc^2 times the
\* squared distance of camera k from the centre of the frame c (c.zshift = 0)
dists(c, p) ==
    [k \in 1..Len(p.cams) |->
        (c.n * p.cams[k].t[1] - c.tsum[1]) * (c.n * p.cams[k].t[1] - c.tsum[1])
      + (c.n * p.cams[k].t[2] - c.tsum[2]) * (c.n * p.cams[k].t[2] - c.tsum[2])
      + (c.n * p.cams[k].t[3] - c.tsum[3]) * (c.n * p.cams[k].t[3] - c.tsum[3])]

\* np.argmin: the first (0-based) index of a least element
np_argmin(d) ==
    (CHOOSE k \in 1..Len(d) :
        /\ \A j \in 1..Len(d) : d[k] <= d[j]
        /\ \A j \in 1..(k - 1) : d[j] > d[k]) - 1

\* np.arange(n)[::k] for k > 0
Stride(n, k) == [j \in 1..((n + k - 1) \div k) |-> (j - 1) * k]

Elems(s) == {s[j] : j \in 1..Len(s)}

\* line 97: [i for i in np.arange(n) if (i not in i_test and i not in i_val)]
RECURSIVE TrainList(_, _, _)
TrainList(n, test, val) ==
    IF n = 0 THEN <<>>
    ELSE LET r == TrainList(n - 1, test, val)
         IN  IF (n - 1) \notin Elems(test) /\ (n - 1) \notin Elems(val)
             THEN Append(r, n - 1) ELSE r

\* np.array(list): an empty list gives a float64 array, a list of ints an int64 one
np_array(list) ==
    [dtype |-> IF Len(list) = 0 THEN "float64" ELSE "int64", v |-> list]

i_train_of_from_one(n, test, val) ==
    np_array(SelectSeq(TrainList(n, test, val), LAMBDA i : i # 0))

i_train_of(n, test, val) == np_array(TrainList(n, test, val))

\* lines 91-95
i_test_of(hold, c, p) ==
    IF hold > 0 THEN np_array(Stride(Len(p.cams), hold))
    ELSE [dtype |-> "list", v |-> <<np_argmin(dists(c, p))>>]

\* lines 87-97
Split ==
    /\ pc = "split"
    /\ heap' = [heap EXCEPT !["c2w87"] = poses_avg(heap[poses])]
    /\ c2w' = "c2w87"
    /\ llffhold' \in Holds
    /\ i_test' = i_test_of(llffhold', heap'["c2w87"], heap[poses])
    /\ i_val' = i_test'
    /\ i_train' = i_train_of(Len(heap[imgs].v), i_test'.v, i_val'.v)
    /\ pc' = "select"
    /\ UNCHANGED <<spiralVars, loadVars,
                   notHold, refVars, c2w_path, rads, N_rots, N_views,
                   render_poses, intrVars, ret, outcome>>

\* a[idx] for an integer index array or list: a new array
Take(a, idx) == [j \in 1..Len(idx) |-> a[idx[j] + 1]]

SelectedIndex(s) == IF s = "train" THEN i_train ELSE i_test

\* lines 99-101
Select ==
    /\ pc = "select"
    /\ split' \in Splits
    /\ SelectedIndex(split').dtype # "float64"
    /\ heap' = [heap EXCEPT
                  !["imgs99"] = [heap[imgs] EXCEPT !.v = Take(@, SelectedIndex(split').v)],
                  !["poses100"] = [heap[poses] EXCEPT !.cams = Take(@, SelectedIndex(split').v)],
                  !["bds101"] = [heap[bds] EXCEPT !.v = Take(@, SelectedIndex(split').v)]]
    /\ imgs' = "imgs99"
    /\ poses' = "poses100"
    /\ bds' = "bds101"
    /\ pc' = "return"
    /\ UNCHANGED <<spiralVars, loadVars,
                   notSplit, pathVars, intrVars, idxVars, ret, outcome>>

\* line 99 with split == 'train' and an empty i_train: imgs[np.array([])] raises
\* IndexError (arrays used as indices must be of integer or boolean type)
SelectIndexError ==
    /\ pc = "select"
    /\ split' \in Splits
    /\ SelectedIndex(split').dtype = "float64"
    /\ outcome' = "IndexError"
    /\ pc' = "done"
    /\ UNCHANGED <<spiralVars, loadVars,
                   notSplit, heap, refVars, pathVars, intrVars, idxVars, ret>>

\* poses[:, :3, :4]: the hwf column is cut off
Cols34(p) ==
    [p EXCEPT !.cams = [k \in 1..Len(p.cams) |->
        IF p.cams[k].kind = "real"
        THEN [kind |-> "real", id |-> p.cams[k].id, t |-> p.cams[k].t]
        ELSE [kind |-> "render", theta |-> p.cams[k].theta, c |-> p.cams[k].c]]]

\* lines 104-106
Return ==
    /\ pc = "return"
    /\ poses' = IF split = "fake" THEN render_poses ELSE poses
    /\ ret' = [imgs |-> heap[imgs].v, poses |-> Cols34(heap[poses']),
               near |-> near, far |-> far, H |-> H, W |-> W, K |-> K]
    /\ outcome' = "returned"
    /\ pc' = "done"
    /\ UNCHANGED <<spiralVars, loadVars,
                   argVars, heap, bds, imgs, pathVars, intrVars, idxVars>>

PipeNext ==
    \/ Scale
    \/ Recenter
    \/ Spherify
    \/ AvgFrame
    \/ ZFlat
    \/ RenderSpiral
    \/ RenderSpiralTypeError
    \/ Intrinsics
    \/ Split
    \/ Select
    \/ SelectIndexError
    \/ Return

----------------------------------------------------------------------------
(* _load_data and _minify over a file system, and the first statement of   *)
(* load_llff_data (line 26), which unpacks what _load_data returns.        *)
(*                                                                         *)
(* A directory is named by the fields of its format string: <<"images">>,  *)
(* <<"images", 8>> for images_8, <<"images", 3, 2>> for images_3x2.  A file*)
(* is <<stem, extension>>.  basedir is an absolute path.                   *)

MaxFiles == 2
MaxRows == 2

Exts == {"jpg", "png", "jpeg"}

\* the shape (height, width) of every original image
OrigShape == <<4, 6>>
Factors == {8}
Heights == {2}
Widths == {3}

ImagesDir == <<"images">>
\* 'images_{}'.format(r)
FactorDir(r) == <<"images", r>>
\* 'images_{}x{}'.format(r[1], r[0]) for r = [height, width]
ResolutionDir(r) == <<"images", r[2], r[1]>>

\* lines 134-136 and 140-142, for the integers the model passes
WidthFor(height) == (OrigShape[2] * height) \div OrigShape[1]
HeightFor(width) == (OrigShape[1] * width) \div OrigShape[2]

TargetDirs ==
    {FactorDir(f) : f \in Factors}
    \cup {ResolutionDir(<<h, WidthFor(h)>>) : h \in Heights}
    \cup {ResolutionDir(<<HeightFor(w), w>>) : w \in Widths}

AllDirs == {ImagesDir} \cup TargetDirs

NoDir == [exists |-> FALSE, files |-> {}]
Dir(files) == [exists |-> TRUE, files |-> files]

\* os.path.exists
path_exists_never(f, d) == FALSE

path_exists(f, d) == f[d].exists

\* the filter of lines 124 and 156, and the one of line 197
IsImage3(file) == file[2] \in {"JPG", "jpg", "png"}
IsImage5(file) == file[2] \in {"JPG", "jpg", "png", "jpeg", "PNG"}

\* sorted(...)[0]: file names sort by stem (the stems of a directory of
\* originals are distinct)
First(files) == CHOOSE x \in files : \A y \in files : x[1] <= y[1]

\* the contents a directory of m originals can have
Originals(m) == {{<<k, e[k]>> : k \in 1..m} : e \in [1..m -> Exts]}
PngSet(m) == {<<k, "png">> : k \in 1..m}

LoadInit ==
    /\ nrows \in 1..MaxRows
    /\ \E im \in {NoDir} \cup {Dir(c) : c \in UNION {Originals(m) : m \in 0..MaxFiles}} :
       \E tg \in [TargetDirs -> {NoDir} \cup {Dir(PngSet(m)) : m \in 0..MaxFiles}] :
          fs = [d \in AllDirs |-> IF d = ImagesDir THEN im ELSE tg[d]]
    /\ cwd = <<"home">>
    /\ call = [fn |-> "none", factor |-> None, width |-> None, height |-> None]
    /\ lpc = "idle"
    /\ sh = None /\ target = None /\ imgdir = None /\ needtoload = FALSE
    /\ wd = None /\ ext = "" /\ result = "none"
    /\ fs_entry = fs /\ cwd_entry = cwd
    /\ minified = {}

Opt(S) == {<<>>} \cup {<<x>> : x \in S}

\* a call of load_llff_data(basedir, factor=...) or of
\* _load_data(basedir, factor, width, height); one load runs at a time
Call ==
    /\ lpc \in {"idle", "done"}
    /\ \E fn \in {"load_llff_data", "_load_data"}, f \in Opt(Factors),
          w \in Opt(Widths), h \in Opt(Heights) :
          /\ fn = "load_llff_data" => w = None /\ h = None
          /\ call' = [fn |-> fn, factor |-> f, width |-> w, height |-> h]
    /\ lpc' = "L124"
    /\ sh' = None /\ target' = None /\ imgdir' = None /\ needtoload' = FALSE
    /\ wd' = None /\ ext' = "" /\ result' = "none"
    /\ fs_entry' = fs
    /\ cwd_entry' = cwd
    /\ UNCHANGED <<spiralVars, pipeVars,
                   fs, nrows, cwd, minified>>

Raise(e) ==
    /\ result' = e
    /\ lpc' = "done"

\* lines 124-125: os.listdir raises FileNotFoundError when there is no images
\* directory, [0] raises IndexError when it lists no image; otherwise the
\* first original image is read for its shape
ListImages ==
    /\ lpc = "L124"
    /\ IF ~fs[ImagesDir].exists THEN Raise("FileNotFoundError") /\ UNCHANGED sh
       ELSE IF {x \in fs[ImagesDir].files : IsImage3(x)} = {}
            THEN Raise("IndexError") /\ UNCHANGED sh
            ELSE sh' = OrigShape /\ lpc' = "L129" /\ UNCHANGED result
    /\ UNCHANGED <<spiralVars, pipeVars,
                   fs, nrows, cwd, call, target, imgdir, needtoload, wd, ext,
                   fs_entry, cwd_entry, minified>>

\* lines 127-147: the suffix of the image directory and the _minify call
Branch ==
    /\ lpc = "L129"
    /\ IF call.factor # None
       THEN /\ target' = FactorDir(call.factor[1])
            /\ lpc' = "m180"
       ELSE IF call.height # None
       THEN /\ target' = ResolutionDir(<<call.height[1], WidthFor(call.height[1])>>)
            /\ lpc' = "m180"
       ELSE IF call.width # None
       THEN /\ target' = ResolutionDir(<<HeightFor(call.width[1]), call.width[1]>>)
            /\ lpc' = "m180"
       ELSE /\ target' = ImagesDir
            /\ lpc' = "L150"
    /\ fs_entry' = fs
    /\ UNCHANGED <<spiralVars, pipeVars,
                   fs, nrows, cwd, call, sh, imgdir, needtoload, wd, ext, result,
                   cwd_entry, minified>>

\* _minify lines 180-190
MinifyCheck ==
    /\ lpc = "m180"
    /\ needtoload' = ~path_exists(fs, target)
    /\ lpc' = IF needtoload' THEN "m195" ELSE "m_ret"
    /\ UNCHANGED <<spiralVars, pipeVars,
                   fs, nrows, cwd, call, sh, target, imgdir, wd, ext, result,
                   fs_entry, cwd_entry, minified>>

\* lines 195-200 (the images directory exists: line 124 listed it)
MinifyList ==
    /\ lpc = "m195"
    /\ wd' = cwd
    /\ lpc' = "m202"
    /\ UNCHANGED <<spiralVars, pipeVars,
                   fs, nrows, cwd, call, sh, target, imgdir, needtoload, ext,
                   result, fs_entry, cwd_entry, minified>>

\* lines 202-211: the loop has one round, for the one factor or resolution
MinifyLoop ==
    /\ lpc = "m202"
    /\ lpc' = IF path_exists(fs, target) THEN "m_ret" ELSE "m215"
    /\ UNCHANGED <<spiralVars, pipeVars,
                   fs, nrows, cwd, call, sh, target, imgdir, needtoload, wd, ext,
                   result, fs_entry, cwd_entry, minified>>

\* line 215: os.makedirs raises FileExistsError on an existing directory
MakeDirs ==
    /\ lpc = "m215"
    /\ IF fs[target].exists
       THEN Raise("FileExistsError") /\ UNCHANGED fs
       ELSE fs' = [fs EXCEPT ![target] = Dir({})] /\ lpc' = "m216" /\ UNCHANGED result
    /\ UNCHANGED <<spiralVars, pipeVars,
                   nrows, cwd, call, sh, target, imgdir, needtoload, wd, ext,
                   fs_entry, cwd_entry, minified>>

\* line 216: cp images/* target
Copy ==
    /\ lpc = "m216"
    /\ fs' = [fs EXCEPT ![target].files = @ \cup fs[ImagesDir].files]
    /\ lpc' = "m218"
    /\ UNCHANGED <<spiralVars, pipeVars,
                   nrows, cwd, call, sh, target, imgdir, needtoload, wd, ext,
                   result, fs_entry, cwd_entry, minified>>

\* line 216 when cp exits non-zero: check_output raises CalledProcessError,
\* whatever cp had copied by then stays
CopyFails ==
    /\ lpc = "m216"
    /\ \E part \in SUBSET fs[ImagesDir].files :
          /\ part # fs[ImagesDir].files
          /\ fs' = [fs EXCEPT ![target].files = @ \cup part]
    /\ Raise("CalledProcessError")
    /\ UNCHANGED <<spiralVars, pipeVars,
                   nrows, cwd, call, sh, target, imgdir, needtoload, wd, ext,
                   fs_entry, cwd_entry, minified>>

\* lines 218-221
ChangeDir ==
    /\ lpc = "m218"
    /\ ext' = First({x \in fs[ImagesDir].files : IsImage5(x)})[2]
    /\ cwd' = target
    /\ lpc' = "m222"
    /\ UNCHANGED <<spiralVars, pipeVars,
                   fs, nrows, call, sh, target, imgdir, needtoload, wd, result,
                   fs_entry, cwd_entry, minified>>

\* line 222: mogrify -resize .. -format png *.ext, run in cwd; line 223
Mogrify ==
    /\ lpc = "m222"
    /\ fs' = [fs EXCEPT ![cwd].files =
                @ \cup {<<x[1], "png">> : x \in {y \in @ : y[2] = ext}}]
    /\ cwd' = wd
    /\ lpc' = "m225"
    /\ UNCHANGED <<spiralVars, pipeVars,
                   nrows, call, sh, target, imgdir, needtoload, wd, ext, result,
                   fs_entry, cwd_entry, minified>>

\* line 222 when mogrify exits non-zero (or is not installed): check_output
\* raises CalledProcessError and line 223 is not reached
MogrifyFails ==
    /\ lpc = "m222"
    /\ Raise("CalledProcessError")
    /\ UNCHANGED <<spiralVars, pipeVars,
                   fs, nrows, cwd, call, sh, target, imgdir, needtoload, wd, ext,
                   fs_entry, cwd_entry, minified>>

\* lines 225-228
Remove ==
    /\ lpc = "m225"
    /\ fs' = IF ext # "png"
             THEN [fs EXCEPT ![target].files = {x \in @ : x[2] # ext}]
             ELSE fs
    /\ lpc' = "m_ret"
    /\ UNCHANGED <<spiralVars, pipeVars,
                   nrows, cwd, call, sh, target, imgdir, needtoload, wd, ext,
                   result, fs_entry, cwd_entry, minified>>

\* line 226 when rm exits non-zero
RemoveFails ==
    /\ lpc = "m225"
    /\ ext # "png"
    /\ Raise("CalledProcessError")
    /\ UNCHANGED <<spiralVars, pipeVars,
                   fs, nrows, cwd, call, sh, target, imgdir, needtoload, wd, ext,
                   fs_entry, cwd_entry, minified>>

\* _minify returns (line 190 or the end of the loop)
MinifyReturn ==
    /\ lpc = "m_ret"
    /\ minified' = minified \cup {target}
    /\ lpc' = "L150"
    /\ UNCHANGED <<spiralVars, pipeVars,
                   fs, nrows, cwd, call, sh, target, imgdir, needtoload, wd, ext,
                   result, fs_entry, cwd_entry>>

\* line 157
CountMismatchNever(n, files) == FALSE

CountMismatch(n, files) == n # Cardinality({x \in files : IsImage3(x)})

Finish(r) ==
    IF call.fn = "load_llff_data"
    THEN /\ lpc' = "L26"
         /\ result' = r
    ELSE /\ lpc' = "done"
         /\ result' = r

\* lines 150-176: the two checks print and return None; otherwise the images
\* are read and (poses, bds, imgs) is returned
CheckAndRead ==
    /\ lpc = "L150"
    /\ imgdir' = target
    /\ IF ~path_exists(fs, target) THEN Finish("None")
       ELSE IF CountMismatch(nrows, fs[target].files) THEN Finish("None")
       ELSE Finish("tuple")
    /\ UNCHANGED <<spiralVars, pipeVars,
                   fs, nrows, cwd, call, sh, target, needtoload, wd, ext,
                   fs_entry, cwd_entry, minified>>

\* load_llff_data line 26: poses, bds, imgs = None raises TypeError
Unpack ==
    /\ lpc = "L26"
    /\ IF result = "None" THEN Raise("TypeError")
       ELSE lpc' = "L28" /\ UNCHANGED result
    /\ UNCHANGED <<spiralVars, pipeVars,
                   fs, nrows, cwd, call, sh, target, imgdir, needtoload, wd, ext,
                   fs_entry, cwd_entry, minified>>

\* load_llff_data lines 28-106 (the specification Spec): the bundle is
\* returned, or the IndexError or TypeError of that part is raised
Pipeline ==
    /\ lpc = "L28"
    /\ \E r \in {"bundle", "IndexError", "TypeError"} : Raise(r)
    /\ UNCHANGED <<spiralVars, pipeVars,
                   fs, nrows, cwd, call, sh, target, imgdir, needtoload, wd, ext,
                   fs_entry, cwd_entry, minified>>

LoadNext ==
    \/ Call
    \/ ListImages
    \/ Branch
    \/ MinifyCheck
    \/ MinifyList
    \/ MinifyLoop
    \/ MakeDirs
    \/ Copy
    \/ CopyFails
    \/ ChangeDir
    \/ Mogrify
    \/ MogrifyFails
    \/ Remove
    \/ RemoveFails
    \/ MinifyReturn
    \/ CheckAndRead
    \/ Unpack
    \/ Pipeline

----------------------------------------------------------------------------
(* The specifications.  Each runs one part of the program; the variables   *)
(* of the other parts stay at their idle values.                           *)

SpiralIdle == sp_args = Null /\ sp_out = <<>> /\ sp_pc = "idle"

PipeIdle ==
    /\ loaded = <<>>
    /\ bd_factor = Null /\ recenter = Null /\ spherify = Null /\ rad = Null
    /\ llffhold = Null /\ split = Null /\ no_ndc = Null /\ path_zflat = Null
    /\ heap = [s \in Sites |-> Free]
    /\ poses = Null /\ imgs = Null /\ bds = Null
    /\ c2w = Null /\ c2w_path = Null /\ rads = Null
    /\ N_rots = Null /\ N_views = Null /\ render_poses = Null
    /\ H = Null /\ W = Null /\ K = Null /\ near = Null /\ far = Null
    /\ i_test = Null /\ i_val = Null /\ i_train = Null
    /\ ret = Null /\ outcome = "idle" /\ pc = "idle"

LoadIdle ==
    /\ fs = [d \in AllDirs |-> NoDir] /\ nrows = 0 /\ cwd = <<"home">>
    /\ call = [fn |-> "none", factor |-> None, width |-> None, height |-> None]
    /\ lpc = "off"
    /\ sh = None /\ target = None /\ imgdir = None /\ needtoload = FALSE
    /\ wd = None /\ ext = "" /\ result = "none"
    /\ fs_entry = fs /\ cwd_entry = cwd /\ minified = {}

\* load_llff_data on loaded data
Init == PipeInit /\ SpiralIdle /\ LoadIdle
Next == PipeNext
Spec == Init /\ [][Next]_vars

\* render_path_spiral on its own
InitSpiral == SpiralInit /\ PipeIdle /\ LoadIdle
NextSpiral == SpiralCall
SpecSpiral == InitSpiral /\ [][NextSpiral]_vars

\* loads one after another over one file system
InitLoad == LoadInit /\ SpiralIdle /\ PipeIdle
NextLoad == LoadNext
SpecLoad == InitLoad /\ [][NextLoad]_vars

----------------------------------------------------------------------------
(* The claims.                                                             *)

DefaultSpiral ==
    /\ sp_pc = "done"
    /\ sp_args.rots = 2
    /\ sp_args.N = 120
    /\ sp_args.zrate = <<1, 2>>
    /\ \A k \in 1..3 : sp_args.rads[k] # 0

\* C5 (as claimed): render_path_spiral with rots=2, N=120, zrate=0.5 and
\* non-zero radii yields exactly 120 pairwise distinct path points.
C5_AllPointsDistinct ==
    DefaultSpiral =>
        /\ Len(sp_out) = 120
        /\ \A i, j \in 1..Len(sp_out) : i # j => sp_out[i].c # sp_out[j].c

\* C5 (amended): the call yields exactly 120 poses at 120 pairwise distinct
\* angles in [0, 2 turns), the closing angle being dropped; two path points
\* coincide exactly when they are the samples 0 and 60 (theta = 0 and
\* theta = 2*pi), every other pair of points is distinct.
C5_DistinctExceptRevisit ==
    DefaultSpiral =>
        /\ Len(sp_out) = 120
        /\ \A i, j \in 1..Len(sp_out) :
              /\ i # j => sp_out[i].theta # sp_out[j].theta
              /\ RLt(sp_out[i].theta, <<2, 1>>)
              /\ (i < j /\ sp_out[i].c = sp_out[j].c) <=> (i = 1 /\ j = 61)

C5_Witness ==
    /\ DefaultSpiral
    /\ Len(sp_out) = 120
    /\ sp_out[1].c = sp_out[61].c
    /\ sp_out[2].c # sp_out[62].c

----------------------------------------------------------------------------
(* load_llff_data on loaded data (Spec).                                   *)

SplitComputed == pc \in {"select", "return"} \/ (pc = "done" /\ outcome # "TypeError")
Returned == pc = "done" /\ outcome = "returned"
CeilDiv(n, k) == (n + k - 1) \div k

\* C1: for every number of images and every llffhold (a stride k >= 1 or the
\* llffhold <= 0 fallback), i_val equals i_test, i_train and i_test are
\* disjoint, and together they are exactly {0..N-1}.
C1_SplitPartition ==
    SplitComputed =>
        /\ i_val = i_test
        /\ Elems(i_train.v) \cap Elems(i_test.v) = {}
        /\ Elems(i_train.v) \cup Elems(i_test.v) = 0..(Len(loaded) - 1)

C1_Witness ==
    /\ pc = "select"
    /\ llffhold = 0
    /\ Len(i_test.v) = 1
    /\ i_test.v[1] # 0
    /\ Len(i_train.v) = Len(loaded) - 1
    /\ Len(loaded) >= 3

\* C2 (as claimed): for every N >= 1 and stride k >= 1, i_test is
\* {0, k, 2k, ...} within [0, N); split='train' returns N - ceil(N/k) images
\* and as many poses (the records at the non-test indices, in order), the
\* empty train set included; split='test' and 'val' return ceil(N/k) of each.
C2_StrideCounts ==
    (pc = "done" /\ outcome # "TypeError" /\ llffhold >= 1) =>
        LET n == Len(loaded)
            nt == CeilDiv(n, llffhold)
        IN  /\ Elems(i_test.v) = {i \in 0..(n - 1) : i % llffhold = 0}
            /\ outcome = "returned"
            /\ split = "train" =>
                  /\ Len(ret.imgs) = n - nt
                  /\ Len(ret.poses.cams) = n - nt
                  /\ \A j \in 1..Len(ret.imgs) :
                        /\ ret.imgs[j] = ret.poses.cams[j].id
                        /\ ret.imgs[j] % llffhold # 0
                        /\ j > 1 => ret.imgs[j - 1] < ret.imgs[j]
            /\ split \in {"test", "val", "fake"} => Len(ret.imgs) = nt
            /\ split \in {"test", "val"} => Len(ret.poses.cams) = nt

RenderLen ==
    IF heap["render76"].kind = "poses" THEN Len(heap["render76"].cams) ELSE 0

\* C4 (as claimed): the synthesized render path has 120 poses in default
\* spiral mode, 60 in spiral mode with path_zflat and 120 in sphere mode;
\* split='fake' returns exactly that path and none of the real poses; every
\* other split returns real poses, as many as images.
C4_FakeReturnsPath ==
    pc = "done" =>
        /\ RenderLen = IF spherify THEN 120 ELSE IF path_zflat THEN 60 ELSE 120
        /\ (outcome = "returned" /\ split = "fake") =>
              /\ ret.poses = Cols34(heap["render76"])
              /\ \A j \in 1..Len(ret.poses.cams) : ret.poses.cams[j].kind = "render"
        /\ (outcome = "returned" /\ split # "fake") =>
              /\ Len(ret.poses.cams) = Len(ret.imgs)
              /\ \A j \in 1..Len(ret.poses.cams) : ret.poses.cams[j].kind = "real"

\* C6 (as claimed): the 120 ring cameras of spherify_poses stand at equally
\* spaced angles over one full turn (camera i at i/120 of a turn), so no two
\* of them are at the same position.
C6_RingEvenlySpaced ==
    (pc = "intrinsics" /\ spherify) =>
        LET ring == heap[render_poses].cams
        IN  /\ Len(ring) = 120
            /\ \A i \in 1..Len(ring) : ring[i].theta = Rat(i - 1, 120)
            /\ \A i, j \in 1..Len(ring) : i # j => ring[i].c # ring[j].c

\* the bounds of the full pose set after the scaling of line 39 and, in
\* sphere mode, the rescaling of line 315
NormalizedBounds ==
    LET raw == BdsArray(loaded)
        sc1 == IF bd_factor = None THEN <<1, 1>>
               ELSE RDiv(<<1, 1>>, RMul(BdsMin(raw), bd_factor))
        sc2 == IF spherify THEN RDiv(<<1, 1>>, rad) ELSE <<1, 1>>
    IN  BdsTimes(BdsTimes(raw, sc1), sc2)

\* C8: with no_ndc the call returns near = 0.9 * min and far = max of the
\* normalized bounds of the full pose set, otherwise (0, 1); near, far, H, W
\* and K are functions of the inputs other than split (H, W, focal of the
\* first loaded record), the same whichever split is selected.
C8_NearFarIntrinsics ==
    Returned =>
        /\ no_ndc => /\ ret.near = RMul(<<9, 10>>, BdsMin(NormalizedBounds))
                     /\ ret.far = BdsMax(NormalizedBounds)
        /\ ~no_ndc => ret.near = <<0, 1>> /\ ret.far = <<1, 1>>
        /\ ret.H = loaded[1].hwf[1]
        /\ ret.W = loaded[1].hwf[2]
        /\ ret.K = <<<<loaded[1].hwf[3], <<0, 1>>, Rat(loaded[1].hwf[2], 2)>>,
                     <<<<0, 1>>, loaded[1].hwf[3], Rat(loaded[1].hwf[1], 2)>>,
                     <<<<0, 1>>, <<0, 1>>, <<1, 1>>>>>>

C8_Witness ==
    /\ Returned
    /\ no_ndc
    /\ split = "train"
    /\ ~spherify
    /\ bd_factor # None
    /\ BdsMin(heap[bds]) # BdsMin(NormalizedBounds)
    /\ heap[poses].cams[1].hwf[3] # loaded[1].hwf[3]

InputsKept ==
    pc \in {"recenter", "path", "zflat", "spiral", "split"} =>
        \A s \in PoseSites : heap[s].kind # "free" => heap'[s] = heap[s]

\* C10 (as claimed): no pose transform (recenter_poses, spherify_poses, the
\* spiral setup with its path_zflat shift, render_path_spiral, poses_avg)
\* changes an array that exists when it starts: the caller's poses, bounds
\* and average-frame matrix hold the same values after the step as before.
C10_TransformsLeaveInputs == [][InputsKept]_pc

----------------------------------------------------------------------------
(* Loads over a file system (SpecLoad).                                    *)

\* the image directory a load_llff_data call selects
SelectedDir ==
    IF call.factor # None THEN <<"images", call.factor[1]>> ELSE <<"images">>

ImageCount(d) ==
    Cardinality({x \in fs[d].files : x[2] \in {"JPG", "jpg", "png"}})

\* C3: a load_llff_data call that ends with its image directory missing, or
\* holding a number of image files other than the number of pose rows, ends
\* in an exception and returns no bundle.
C3_MismatchNeverReturns ==
    (/\ lpc = "done"
     /\ call.fn = "load_llff_data"
     /\ \/ ~fs[SelectedDir].exists
        \/ ImageCount(SelectedDir) # nrows) =>
        result \in {"TypeError", "FileNotFoundError", "IndexError",
                    "CalledProcessError"}

C3_Witness ==
    /\ lpc = "done"
    /\ call.fn = "load_llff_data"
    /\ imgdir = SelectedDir
    /\ fs[SelectedDir].exists
    /\ ImageCount(SelectedDir) # nrows
    /\ result = "TypeError"

InMinify == lpc \in {"m180", "m195", "m202", "m215", "m216", "m218", "m222",
                     "m225", "m_ret"}

\* C7: a _minify call whose target directory exists when it starts, or for
\* whose target an earlier _minify call has returned, goes from its check
\* straight to its return: it creates, copies, resizes and removes nothing,
\* and the file system stays as it was.
C7_MinifyIdempotent ==
    (InMinify /\ (fs_entry[target].exists \/ target \in minified)) =>
        /\ fs = fs_entry
        /\ lpc \in {"m180", "m_ret"}

C7_Witness ==
    /\ lpc = "m_ret"
    /\ target \in minified
    /\ \E x \in fs[target].files : x[2] = "jpeg"
    /\ fs = fs_entry

\* C9 (as claimed): when a load ends, normally or in an exception, the
\* working directory is the one the call started in.
C9_CwdRestored == lpc = "done" => cwd = cwd_entry

====
